---- MODULE Spec2Model ----
(***************************************************************************)
(* Model of src/src/components/MapView.tsx: the MapView React component,   *)
(* its style function schoolStyle, the pointermove handler, the one-shot   *)
(* change listener of the district source, the deferred updateSize timer   *)
(* and the effect cleanup.                                                 *)
(*                                                                         *)
(* JavaScript values are records tagged with their type in field t.        *)
(* Strings are sequences of one-character strings, so that toLowerCase and *)
(* includes are computed character by character.  A finite number n is     *)
(* held in tenths (tenths = 10 * n).  A non-negative real v produced by    *)
(* the radius computation is held exactly as sq = 1000 * v * v, which is   *)
(* an integer for every value the computation produces and preserves the   *)
(* order of non-negative reals.                                            *)
(***************************************************************************)
EXTENDS Integers, Sequences, FiniteSets, TLC

----------------------------------------------------------------------------
(* Bounds of the model *)

\* largest whole student count drawn in StyleSpec
MaxElever == 620
\* number of change events the district source may dispatch
MaxChanges == 2
\* number of tile-load errors recorded
MaxTileErrors == 1

----------------------------------------------------------------------------
(* JavaScript values *)

Undefined == [t |-> "undefined"]
Str(s) == [t |-> "string", s |-> s]
Num(n) == [t |-> "number", k |-> "finite", tenths |-> 10 * n]
Tenths(n) == [t |-> "number", k |-> "finite", tenths |-> n]
NaN == [t |-> "number", k |-> "NaN", tenths |-> 0]
PosInfinity == [t |-> "number", k |-> "Infinity", tenths |-> 0]
TypeError == [t |-> "TypeError"]

IsNullish(v) == v.t = "undefined"
\* a ?? b
Coalesce(a, b) == IF IsNullish(a) THEN b ELSE a
\* Number.isFinite(v): true only of values of type number that are finite
NumberIsFinite(v) == v.t = "number" /\ v.k = "finite"
\* JavaScript truthiness of a string-or-undefined value
Truthy(v) ==
  CASE v.t = "undefined" -> FALSE
    [] v.t = "string" -> Len(v.s) > 0
    [] v.t = "number" -> v.k = "Infinity" \/ (v.k = "finite" /\ v.tenths # 0)
    [] OTHER -> TRUE

UpperChars == <<"A", "E", "F", "G", "I", "K", "L", "N", "O", "P", "R", "T", "V">>
LowerChars == <<"a", "e", "f", "g", "i", "k", "l", "n", "o", "p", "r", "t", "v">>
\* toLowerCase left out: every character is kept as it is
LowerCharUnchanged(c) == c
LowerChar(c) ==
  IF \E i \in 1..Len(UpperChars) : UpperChars[i] = c
  THEN LowerChars[CHOOSE i \in 1..Len(UpperChars) : UpperChars[i] = c]
  ELSE c
\* String.prototype.toLowerCase; calling it on a non-string throws
ToLowerCase(v) ==
  IF v.t # "string" THEN TypeError
  ELSE Str([i \in 1..Len(v.s) |-> LowerChar(v.s[i])])
\* String.prototype.includes
Includes(v, needle) ==
  \E i \in 0..(Len(v.s) - Len(needle)) :
    \A j \in 1..Len(needle) : v.s[i + j] = needle[j]

----------------------------------------------------------------------------
(* Arithmetic of the radius computation *)

RNaN == [k |-> "NaN", sq |-> 0]
\* the literal k as a non-negative real
Lit(k) == [k |-> "finite", sq |-> 1000 * k * k]
\* Math.sqrt of a finite number held in tenths; NaN below zero
MathSqrt(x) ==
  IF x.tenths < 0 THEN RNaN ELSE [k |-> "finite", sq |-> 100 * x.tenths]
\* v * 0.9
Times09(v) ==
  IF v.k = "NaN" THEN RNaN ELSE [k |-> "finite", sq |-> (81 * v.sq) \div 100]
\* Math.min and Math.max return NaN when an argument is NaN
MathMin(a, b) ==
  IF a.k = "NaN" \/ b.k = "NaN" THEN RNaN
  ELSE IF a.sq <= b.sq THEN a ELSE b
MathMax(a, b) ==
  IF a.k = "NaN" \/ b.k = "NaN" THEN RNaN
  ELSE IF a.sq >= b.sq THEN a ELSE b

----------------------------------------------------------------------------
(* schoolStyle *)

PrivatNeedle == <<"p", "r", "i", "v", "a", "t">>
PrivateColor == "rgba(255,165,0,0.9)"
PublicColor == "rgba(0,140,255,0.9)"

\* const eleverRaw = props.antall_elever ?? 0
EleverRaw(props) == Coalesce(props.antall_elever, Num(0))
\* const elever = Number.isFinite(eleverRaw) ? Number(eleverRaw) : 0
Elever(props) ==
  IF NumberIsFinite(EleverRaw(props)) THEN EleverRaw(props) ELSE Num(0)
\* the factor 0.9 left out
RadiusNoScale(props) ==
  MathMax(Lit(4), MathMin(Lit(22), MathSqrt(Elever(props))))
\* const radius = Math.max(4, Math.min(22, Math.sqrt(elever) * 0.9))
Radius(props) ==
  MathMax(Lit(4), MathMin(Lit(22), Times09(MathSqrt(Elever(props)))))
\* the default for an absent eierforhold left out
EierNoDefault(props) == ToLowerCase(props.eierforhold)
\* const eier = (props.eierforhold ?? "").toLowerCase()
Eier(props) == ToLowerCase(Coalesce(props.eierforhold, Str(<<>>)))
\* the style returned for a feature, or the error thrown
schoolStyle(props) ==
  IF Eier(props).t = "TypeError" THEN [t |-> "TypeError"]
  ELSE [t |-> "Style",
        radius |-> Radius(props),
        fill |-> IF Includes(Eier(props), PrivatNeedle)
                 THEN PrivateColor ELSE PublicColor,
        stroke |-> "rgba(255,255,255,0.95)"]

----------------------------------------------------------------------------
(* Popup template *)

DigitChars == <<"0", "1", "2", "3", "4", "5", "6", "7", "8", "9">>
RECURSIVE Digits(_)
Digits(n) ==
  IF n < 10 THEN <<DigitChars[n + 1]>>
  ELSE Digits(n \div 10) \o <<DigitChars[(n % 10) + 1]>>
Abs(n) == IF n < 0 THEN 0 - n ELSE n
\* the text a template literal produces for a value
ToStringJS(v) ==
  CASE v.t = "string" -> v.s
    [] v.t = "undefined" -> <<"u", "n", "d", "e", "f", "i", "n", "e", "d">>
    [] v.t = "number" /\ v.k = "NaN" -> <<"N", "a", "N">>
    [] v.t = "number" /\ v.k = "Infinity" ->
         <<"I", "n", "f", "i", "n", "i", "t", "y">>
    [] OTHER ->
         (IF v.tenths < 0 THEN <<"-">> ELSE <<>>)
         \o Digits(Abs(v.tenths) \div 10)
         \o (IF Abs(v.tenths) % 10 = 0 THEN <<>>
             ELSE <<".">> \o Digits(Abs(v.tenths) % 10))
QuestionMark == Str(<<"?">>)
\* the innerHTML written by the pointermove handler
PopupTemplate(props) ==
  [navn |-> ToStringJS(props.navn),
   elever |-> ToStringJS(Coalesce(props.antall_elever, QuestionMark)),
   eier |-> ToStringJS(Coalesce(props.eierforhold, QuestionMark))]
EmptyHTML == [navn |-> <<>>, elever |-> <<>>, eier |-> <<>>]

----------------------------------------------------------------------------
(* Geometry, view and hit detection *)

Infinity == 999999
\* extent of a source without features: createEmpty()
EmptyExtent == <<Infinity, Infinity, 0 - Infinity, 0 - Infinity>>
\* bounding box of the district polygons of bydeler.geojson
BydelerBox == <<2, 2, 6, 8>>
\* VectorSource.getExtent()
GetExtent(feats) == IF DOMAIN feats = {} THEN EmptyExtent ELSE BydelerBox

\* new View({center: fromLonLat([10.75, 59.91]), zoom: 5, minZoom: 4})
InitialView == [center |-> <<0, 0>>, zoom |-> 5]
FitMaxZoom == 12
Min(a, b) == IF a <= b THEN a ELSE b
\* view.fit(extent, {padding, maxZoom: 12}): centre of the extent, zoom
\* that shows its larger side, capped at maxZoom
Fit(extent) ==
  [center |-> <<(extent[1] + extent[3]) \div 2, (extent[2] + extent[4]) \div 2>>,
   zoom |-> Min(FitMaxZoom, 16 - (extent[4] - extent[2]))]

SkoleIds == {"s1", "s2"}
BydelIds == {"b1"}
Pixels == {1, 2}
\* evt.coordinate of an event at a pixel
Coordinate(pixel) == [t |-> "coordinate", c |-> <<10 * pixel, 20 * pixel>>]
\* features drawn at a pixel, topmost layer (skoler) first
SkolerAtPixel(pixel) == IF pixel = 1 THEN {"s1"} ELSE {}
BydelerAtPixel(pixel) == IF pixel \in {1, 2} THEN {"b1"} ELSE {}
NoFeature == [layer |-> "none", id |-> "none"]
\* map.forEachFeatureAtPixel(evt.pixel, f => f): the topmost feature drawn
\* at the pixel, undefined when there is none or the map has no renderer
ForEachFeatureAtPixel(m, feats, pixel) ==
  IF ~m.target THEN NoFeature
  ELSE IF SkolerAtPixel(pixel) \cap DOMAIN feats.skoler # {}
  THEN [layer |-> "skoler",
        id |-> CHOOSE f \in SkolerAtPixel(pixel) \cap DOMAIN feats.skoler : TRUE]
  ELSE IF BydelerAtPixel(pixel) \cap DOMAIN feats.bydeler # {}
  THEN [layer |-> "bydeler",
        id |-> CHOOSE f \in BydelerAtPixel(pixel) \cap DOMAIN feats.bydeler : TRUE]
  ELSE NoFeature
\* feature.getProperties()
GetProperties(feats, hit) == feats[hit.layer][hit.id]

\* a reader that fills in a student count of 0 where the file has none
ReadFeaturesDefaulting(file) ==
  [f \in DOMAIN file |->
     [file[f] EXCEPT !.antall_elever = Coalesce(file[f].antall_elever, Num(0))]]
\* GeoJSON format: the features of a file, attributes as in the file
ReadFeatures(file) == [f \in DOMAIN file |-> file[f]]
NoFeatures == [f \in {} |-> Undefined]

----------------------------------------------------------------------------
(* State of the component *)

VARIABLES
  files,        \* the static GeoJSON files: [skoler, bydeler], id -> attributes
  phase,        \* "rendered", "mounted", "detached" (refs cleared), "torn"
  refs,         \* which of mapDivRef, popupRef, popupContentRef are set
  map,          \* [target, size, view] of the ol/Map
  visible,      \* visibility of each layer of the map
  timer,        \* the setTimeout(() => map.updateSize(), 0) callback
  bydelerSource,\* [state, listener]: source state, once("change") listener armed
  features,     \* features held by the two vector sources
  styled,       \* result of the last schoolStyle call per school feature
  overlay,      \* [position] of the tooltip overlay
  popupHTML,    \* innerHTML of the popup content element
  lastEvt,      \* the pointer event dispatched last: [type, pixel, hit, popup]
  tileErrors,   \* tile-load errors of the primary tile source so far
  changes,      \* change events dispatched by the district source so far
  firstChange,  \* source state and extent at the first change event
  afterCleanup  \* callbacks that ran after the effect cleanup

vars == <<files, phase, refs, map, visible, timer, bydelerSource, features,
          styled, overlay, popupHTML, lastEvt, tileErrors, changes,
          firstChange, afterCleanup>>

Layers == {"bakgrunn", "bydeler", "skoler"}
\* the base (tile) layers of the map: layers: [bakgrunnLayer, ...]
TileLayers == {"bakgrunn"}
SourceStates == {"loading", "ready"}
NoEvent == [type |-> "none", pixel |-> 0, hit |-> NoFeature, popup |-> FALSE]
NoChange == [state |-> "none", extent |-> EmptyExtent]
NotStyled == [t |-> "none"]
Props(n, a, e) == [navn |-> n, antall_elever |-> a, eierforhold |-> e]

\* attribute values of the school file drawn for the component
NavnInputs == {Undefined, Str(<<>>), Str(<<"N", "y">>)}
EleverInputs == {Undefined, Num(300)}
EierInputs == {Undefined, Str(<<"P", "r", "i", "v", "a", "t">>)}
\* the district file: no feature, or one named district
BydelerFiles ==
  {NoFeatures, [f \in BydelIds |-> Props(Str(<<"B">>), Undefined, Undefined)]}

\* state of a component that has not run its effect yet
Unmounted(fs) ==
  /\ files = fs
  /\ phase = "rendered"
  /\ refs = [mapDiv |-> TRUE, popup |-> TRUE, popupContent |-> TRUE]
  /\ map = [target |-> FALSE, size |-> "undefined", view |-> InitialView]
  /\ visible = [l \in Layers |-> FALSE]
  /\ timer = "none"
  /\ bydelerSource = [state |-> "ready", listener |-> FALSE]
  /\ features = [skoler |-> NoFeatures, bydeler |-> NoFeatures]
  /\ styled = [f \in DOMAIN fs.skoler |-> NotStyled]
  /\ overlay = [position |-> Undefined]
  /\ popupHTML = EmptyHTML
  /\ lastEvt = NoEvent
  /\ tileErrors = 0
  /\ changes = 0
  /\ firstChange = NoChange
  /\ afterCleanup = {}

Init ==
  \E n \in NavnInputs, a \in EleverInputs, e \in EierInputs, b \in BydelerFiles :
    Unmounted([skoler |-> [f \in {"s1"} |-> Props(n, a, e)], bydeler |-> b])

----------------------------------------------------------------------------
(* Operations *)

\* the effect body: sources, layers, overlay, map, timer and listeners
Mount ==
  /\ phase = "rendered"
  /\ refs.mapDiv
  /\ phase' = "mounted"
  /\ map' = [target |-> TRUE, size |-> "defined", view |-> InitialView]
  /\ visible' = [l \in Layers |-> TRUE]
  /\ timer' = "pending"
  /\ bydelerSource' = [state |-> "ready", listener |-> TRUE]
  /\ overlay' = [position |-> Undefined]
  /\ UNCHANGED <<files, refs, features, styled, popupHTML, lastEvt,
                 tileErrors, changes, firstChange, afterCleanup>>

Ran(name) == IF phase = "torn" THEN afterCleanup \cup {name} ELSE afterCleanup

\* setTimeout(() => map.updateSize(), 0)
UpdateSizeTimer ==
  /\ timer = "pending"
  /\ timer' = "fired"
  /\ map' = [map EXCEPT !.size = IF map.target THEN "defined" ELSE "undefined"]
  /\ afterCleanup' = Ran("timer")
  /\ UNCHANGED <<files, phase, refs, visible, bydelerSource, features, styled,
                 overlay, popupHTML, lastEvt, tileErrors, changes, firstChange>>

\* the body of the once("change") listener: the view after it ran
ChangeListener(view, state, extent) ==
  IF state = "ready" /\ extent[1] # Infinity THEN Fit(extent) ELSE view
\* on("change") in place of once("change"): the listener stays registered
ListenerStaysRegistered(listener) == listener
\* whether the listener is still registered after a change event
ListenerAfterChange(listener) == FALSE

\* the district source dispatches a change event: its state becomes st and,
\* when load is set, the features of bydeler.geojson have been added
BydelerChange(st, load) ==
  /\ phase # "rendered"
  /\ changes < MaxChanges
  /\ changes' = changes + 1
  /\ features' = IF load THEN [features EXCEPT !.bydeler = ReadFeatures(files.bydeler)]
                  ELSE features
  /\ bydelerSource' = [state |-> st,
                        listener |-> bydelerSource.listener
                                     /\ ListenerAfterChange(bydelerSource.listener)]
  /\ firstChange' = IF changes = 0
                     THEN [state |-> st, extent |-> GetExtent(features'.bydeler)]
                     ELSE firstChange
  /\ map' = IF bydelerSource.listener
             THEN [map EXCEPT !.view =
                     ChangeListener(map.view, st, GetExtent(features'.bydeler))]
             ELSE map
  /\ afterCleanup' = IF bydelerSource.listener THEN Ran("change") ELSE afterCleanup
  /\ UNCHANGED <<files, phase, refs, visible, timer, styled, overlay,
                 popupHTML, lastEvt, tileErrors>>

\* skoler.geojson has been fetched and its features added to skolerSource
SkolerLoaded ==
  /\ phase # "rendered"
  /\ DOMAIN features.skoler = {}
  /\ features' = [features EXCEPT !.skoler = ReadFeatures(files.skoler)]
  /\ UNCHANGED <<files, phase, refs, map, visible, timer, bydelerSource,
                 styled, overlay, popupHTML, lastEvt, tileErrors, changes,
                 firstChange, afterCleanup>>

\* skolerLayer renders a feature: style: schoolStyle
RenderFeature(f) ==
  /\ map.target
  /\ f \in DOMAIN features.skoler
  /\ styled' = [styled EXCEPT ![f] = schoolStyle(features.skoler[f])]
  /\ UNCHANGED <<files, phase, refs, map, visible, timer, bydelerSource,
                 features, overlay, popupHTML, lastEvt, tileErrors, changes,
                 firstChange, afterCleanup>>

\* the handler without the check of props.navn
HandlerPositionNoNameCheck(hit, pixel) ==
  IF hit = NoFeature THEN Undefined ELSE Coordinate(pixel)
\* overlay position after the pointermove handler
HandlerPosition(hit, pixel) ==
  IF hit = NoFeature THEN Undefined
  ELSE IF ~Truthy(GetProperties(features, hit).navn) THEN Undefined
  ELSE Coordinate(pixel)
\* popup content after the pointermove handler
HandlerHTML(hit) ==
  IF hit = NoFeature THEN popupHTML
  ELSE IF ~Truthy(GetProperties(features, hit).navn) THEN popupHTML
  ELSE PopupTemplate(GetProperties(features, hit))

\* map.on("pointermove", ...)
PointerMove(pixel) ==
  /\ phase # "rendered"
  /\ LET hit == ForEachFeatureAtPixel(map, features, pixel) IN
       /\ lastEvt' = [type |-> "pointermove", pixel |-> pixel, hit |-> hit,
                       popup |-> refs.popupContent]
       /\ IF ~refs.popupContent
          THEN UNCHANGED <<overlay, popupHTML>>
          ELSE /\ overlay' = [position |-> HandlerPosition(hit, pixel)]
               /\ popupHTML' = HandlerHTML(hit)
  /\ afterCleanup' = Ran("pointermove")
  /\ UNCHANGED <<files, phase, refs, map, visible, timer, bydelerSource,
                 features, styled, tileErrors, changes, firstChange>>

\* the map dispatches a click; the component registers no click listener
Click(pixel) ==
  /\ phase \in {"mounted", "detached"}
  /\ lastEvt' = [type |-> "click", pixel |-> pixel,
                  hit |-> ForEachFeatureAtPixel(map, features, pixel),
                  popup |-> refs.popupContent]
  /\ UNCHANGED <<files, phase, refs, map, visible, timer, bydelerSource,
                 features, styled, overlay, popupHTML, tileErrors, changes,
                 firstChange, afterCleanup>>

\* the WMTS source of bakgrunnLayer fails to load a tile; the component
\* registers no tileloaderror listener
TileLoadError ==
  /\ phase \in {"mounted", "detached"}
  /\ tileErrors < MaxTileErrors
  /\ tileErrors' = tileErrors + 1
  /\ UNCHANGED <<files, phase, refs, map, visible, timer, bydelerSource,
                 features, styled, overlay, popupHTML, lastEvt, changes,
                 firstChange, afterCleanup>>

\* the component is removed: React clears the refs before it runs the cleanup
DetachRefs ==
  /\ phase = "mounted"
  /\ phase' = "detached"
  /\ refs' = [mapDiv |-> FALSE, popup |-> FALSE, popupContent |-> FALSE]
  /\ UNCHANGED <<files, map, visible, timer, bydelerSource, features, styled,
                 overlay, popupHTML, lastEvt, tileErrors, changes, firstChange,
                 afterCleanup>>

\* a cleanup that leaves the map attached
CleanupKeepsTarget == TRUE
\* the target of the map after the effect cleanup
CleanupTarget == FALSE
\* return () => { map.setTarget(undefined) }
Cleanup ==
  /\ phase = "detached"
  /\ phase' = "torn"
  /\ map' = [map EXCEPT !.target = CleanupTarget,
                         !.size = IF CleanupTarget THEN "defined" ELSE "undefined"]
  /\ UNCHANGED <<files, refs, visible, timer, bydelerSource, features, styled,
                 overlay, popupHTML, lastEvt, tileErrors, changes, firstChange,
                 afterCleanup>>

Next ==
  \/ Mount
  \/ UpdateSizeTimer
  \/ \E st \in SourceStates, load \in BOOLEAN : BydelerChange(st, load)
  \/ SkolerLoaded
  \/ \E f \in SkoleIds : RenderFeature(f)
  \/ \E p \in Pixels : PointerMove(p)
  \/ \E p \in Pixels : Click(p)
  \/ TileLoadError
  \/ DetachRefs
  \/ Cleanup

Spec == Init /\ [][Next]_vars

\* the deferred timer is the only step the browser is bound to run
FairSpec == Spec /\ WF_vars(UpdateSizeTimer)

----------------------------------------------------------------------------
(* The style function over a wide range of attribute values: a mounted map  *)
(* whose school source holds two features, rendered any number of times    *)

StyleEleverInputs ==
  {Undefined, NaN, PosInfinity, Str(<<"1", "0", "0">>),
   Tenths(0 - 4000), Tenths(0 - 10), Tenths(0 - 5),
   Tenths(5), Tenths(195), Tenths(198), Tenths(5975), Tenths(5976)}
  \cup {Num(n) : n \in 0..MaxElever}
StyleEierInputs ==
  {Undefined, Num(1), Str(<<>>),
   Str(<<"p", "r", "i", "v", "a", "t">>),
   Str(<<"P", "r", "i", "v", "a", "t">>),
   Str(<<"P", "R", "I", "V", "A", "T">>),
   Str(<<"o", "f", "f", "e", "n", "t", "l", "i", "g">>),
   Str(<<"O", "f", "f", "e", "n", "t", "l", "i", "g">>),
   Str(<<"I", "k", "k", "e", "-", "P", "r", "i", "v", "a", "t">>),
   Str(<<"p", "r", "i", "v", "a">>),
   Str(<<"p", "r", "i", "v", " ", "a", "t">>),
   Str(<<"K", "o", "m", "m", "u", "n", "a", "l">>)}
SecondEleverInputs == {Num(0), Num(19), Num(20), Num(300), Num(597), Num(598)}

Rendering(fs) ==
  /\ files = fs
  /\ phase = "mounted"
  /\ refs = [mapDiv |-> TRUE, popup |-> TRUE, popupContent |-> TRUE]
  /\ map = [target |-> TRUE, size |-> "defined", view |-> InitialView]
  /\ visible = [l \in Layers |-> TRUE]
  /\ timer = "fired"
  /\ bydelerSource = [state |-> "ready", listener |-> TRUE]
  /\ features = [skoler |-> ReadFeatures(fs.skoler), bydeler |-> NoFeatures]
  /\ styled = [f \in DOMAIN fs.skoler |-> NotStyled]
  /\ overlay = [position |-> Undefined]
  /\ popupHTML = EmptyHTML
  /\ lastEvt = NoEvent
  /\ tileErrors = 0
  /\ changes = 0
  /\ firstChange = NoChange
  /\ afterCleanup = {}

InitStyle ==
  \E a \in StyleEleverInputs, e \in StyleEierInputs, a2 \in SecondEleverInputs :
    Rendering([skoler |->
                 [f \in SkoleIds |->
                    IF f = "s1" THEN Props(Str(<<"N", "y">>), a, e)
                    ELSE Props(Undefined, a2, Str(<<"p", "r", "i", "v", "a", "t">>))],
               bydeler |-> NoFeatures])

NextStyle == \E f \in SkoleIds : RenderFeature(f)

StyleSpec == InitStyle /\ [][NextStyle]_vars

TypeOK ==
  /\ phase \in {"rendered", "mounted", "detached", "torn"}
  /\ timer \in {"none", "pending", "fired"}
  /\ changes \in 0..MaxChanges

----------------------------------------------------------------------------
(* Properties *)

IsStyle(f) == styled[f].t = "Style"
SkoleProps(f) == features.skoler[f]
\* a finite student count that is zero or more
NonNegative(v) == v.t = "number" /\ v.k = "finite" /\ v.tenths >= 0
\* a value that is not a finite number
NotFinite(v) == ~(v.t = "number" /\ v.k = "finite")
\* 1000 * r * r for the radius bounds 4 and 22
MinSq == 16000
MaxSq == 484000

\* C1: every style returned by schoolStyle has a numeric radius r with
\* 4 <= r <= 22, whatever the antall_elever of the feature.
RadiusWithinBounds ==
  \A f \in DOMAIN styled :
    IsStyle(f) =>
      /\ styled[f].radius.k = "finite"
      /\ styled[f].radius.sq >= MinSq
      /\ styled[f].radius.sq <= MaxSq

PrivatUpper == <<"P", "R", "I", "V", "A", "T">>
\* the text contains "privat" in any mix of upper and lower case
ContainsPrivat(v) ==
  /\ v.t = "string"
  /\ \E i \in 1..Len(v.s) :
       /\ i + 5 <= Len(v.s)
       /\ \A j \in 1..6 : v.s[i + j - 1] \in {PrivatNeedle[j], PrivatUpper[j]}

\* C2: the fill colour of a returned style is the private colour exactly
\* when eierforhold contains "privat" case-insensitively and the public
\* colour otherwise; a rendered feature whose eierforhold is a string or
\* absent always gets a style.
ColourByOwnership ==
  \A f \in DOMAIN styled :
    /\ IsStyle(f) =>
         styled[f].fill = IF ContainsPrivat(SkoleProps(f).eierforhold)
                          THEN "rgba(255,165,0,0.9)" ELSE "rgba(0,140,255,0.9)"
    /\ (styled[f] # NotStyled
        /\ SkoleProps(f).eierforhold.t \in {"undefined", "string"}) => IsStyle(f)
ColourByOwnershipWitness ==
  /\ IsStyle("s1") /\ IsStyle("s2")
  /\ SkoleProps("s1").eierforhold = Str(<<"P", "R", "I", "V", "A", "T">>)
  /\ SkoleProps("s1").antall_elever # SkoleProps("s2").antall_elever
  /\ styled["s1"].fill = styled["s2"].fill
  /\ styled["s1"].fill = "rgba(255,165,0,0.9)"

\* the last pointer event hit a feature with a non-empty navn while the
\* popup content element existed
HitNamed ==
  /\ lastEvt.popup
  /\ lastEvt.hit # NoFeature
  /\ GetProperties(features, lastEvt.hit).navn.t = "string"
  /\ Len(GetProperties(features, lastEvt.hit).navn.s) > 0
\* the text shown for an attribute: "?" when it is absent
ShownText(v) == IF v = Undefined THEN <<"?">> ELSE ToStringJS(v)

\* C3: absent attributes fall back to safe values: no antall_elever gives
\* radius 4, no eierforhold gives the public colour, schoolStyle returns a
\* style for every combination of absent attributes, and the popup written
\* by a pointermove shows "?" for each absent attribute.
AbsentIsSafe ==
  /\ \A f \in DOMAIN styled :
       styled[f] # NotStyled =>
         /\ IsStyle(f)
         /\ SkoleProps(f).antall_elever = Undefined => styled[f].radius = Lit(4)
         /\ SkoleProps(f).eierforhold = Undefined =>
              styled[f].fill = "rgba(0,140,255,0.9)"
  /\ (lastEvt.type = "pointermove" /\ HitNamed) =>
       /\ GetProperties(features, lastEvt.hit).antall_elever = Undefined =>
            popupHTML.elever = <<"?">>
       /\ GetProperties(features, lastEvt.hit).eierforhold = Undefined =>
            popupHTML.eier = <<"?">>
AbsentIsSafeWitness ==
  /\ IsStyle("s1")
  /\ SkoleProps("s1").antall_elever = Undefined
  /\ SkoleProps("s1").eierforhold = Undefined
  /\ lastEvt.type = "pointermove" /\ HitNamed
  /\ lastEvt.hit.id = "s1"
  /\ popupHTML.elever = <<"?">> /\ popupHTML.eier = <<"?">>

\* a backup base layer is shown instead of the primary one
BackupVisible ==
  /\ ~visible["bakgrunn"]
  /\ \E l \in TileLayers \ {"bakgrunn"} : visible[l]
\* C4: after a tile-load error on the primary base layer a state is reached
\* in which a backup base layer is visible and the primary one is not.
TileFallback == (tileErrors > 0) ~> BackupVisible

\* C5: after a pointermove handled while the popup content element exists
\* the overlay is positioned exactly when the event hit a feature with a
\* non-empty navn, then at the event's coordinate and with the navn,
\* antall_elever and eierforhold of that feature; otherwise its position
\* is undefined.
TooltipFollowsPointer ==
  (lastEvt.type = "pointermove" /\ lastEvt.popup) =>
    /\ (overlay.position # Undefined) <=> HitNamed
    /\ HitNamed =>
         /\ overlay.position = Coordinate(lastEvt.pixel)
         /\ popupHTML.navn = GetProperties(features, lastEvt.hit).navn.s
         /\ popupHTML.elever =
              ShownText(GetProperties(features, lastEvt.hit).antall_elever)
         /\ popupHTML.eier =
              ShownText(GetProperties(features, lastEvt.hit).eierforhold)
\* the pointer moved from a named district to a school without a name
TooltipFollowsPointerWitness ==
  /\ lastEvt.type = "pointermove" /\ lastEvt.popup
  /\ lastEvt.hit.layer = "skoler"
  /\ ~HitNamed
  /\ popupHTML.navn = <<"B">>
  /\ overlay.position = Undefined

\* C6: a click on a feature that has a navn places the overlay at the
\* clicked coordinate with that feature's data, whether or not a
\* pointermove preceded it.
ClickPositionsTooltip ==
  (lastEvt.type = "click" /\ HitNamed) =>
    /\ overlay.position = Coordinate(lastEvt.pixel)
    /\ popupHTML.navn = GetProperties(features, lastEvt.hit).navn.s

\* C7: the attributes of every feature held by a source equal the values
\* of the GeoJSON file, in every state.
AttributesReadOnly ==
  \A l \in {"skoler", "bydeler"} :
    \A f \in DOMAIN features[l] :
      /\ f \in DOMAIN files[l]
      /\ features[l][f] = files[l][f]
AttributesReadOnlyWitness ==
  /\ phase = "torn"
  /\ timer = "fired"
  /\ IsStyle("s1")
  /\ SkoleProps("s1").antall_elever = Undefined
  /\ lastEvt.type = "pointermove" /\ lastEvt.hit.id = "s1"
  /\ DOMAIN features.bydeler # {}
  /\ firstChange.state = "ready"

\* C8: once the effect cleanup has run the map has no target, in that and
\* every later state, whichever callbacks run afterwards.
TeardownFinal ==
  [][(phase = "torn" \/ phase' = "torn") => (phase' = "torn" /\ ~map'.target)]_vars
\* all three callbacks ran after the cleanup
TeardownFinalWitness ==
  /\ phase = "torn"
  /\ afterCleanup = {"timer", "change", "pointermove"}
  /\ ~map.target

ViewFitted == map.view # InitialView
FirstChangeFits ==
  firstChange.state = "ready" /\ firstChange.extent[1] # Infinity
\* C9: the view is fitted only by the first change event of the district
\* source, and only if the source was then ready with a non-empty extent;
\* no later change event changes the view.
FitAtMostOnce ==
  /\ [](ViewFitted => (FirstChangeFits /\ map.view = Fit(firstChange.extent)))
  /\ []((changes >= 1 /\ ~FirstChangeFits) => ~ViewFitted)
  /\ [][changes >= 1 => map'.view = map.view]_vars
\* the first change came while loading; a later one found the source ready
\* with features and the view was left alone
FitAtMostOnceWitness ==
  /\ changes >= 2
  /\ firstChange.state = "loading"
  /\ bydelerSource.state = "ready"
  /\ DOMAIN features.bydeler # {}
  /\ ~ViewFitted

\* C10: for non-negative finite counts the radius is clamp(0.9 * sqrt(count),
\* 4, 22): non-decreasing in the count, exactly 4 up to 19, exactly 22 from
\* 598, strictly between from 20 to 597; a count that is not a finite
\* number gives radius 4.
RadiusFollowsCount ==
  /\ \A f \in DOMAIN styled :
       IsStyle(f) =>
         LET c == SkoleProps(f).antall_elever
             r == styled[f].radius IN
         /\ NotFinite(c) => (r.k = "finite" /\ r.sq = MinSq)
         /\ NonNegative(c) =>
              /\ r.k = "finite"
              /\ c.tenths <= 190 => r.sq = MinSq
              /\ c.tenths >= 5980 => r.sq = MaxSq
              /\ (c.tenths >= 200 /\ c.tenths <= 5970) =>
                   (r.sq > MinSq /\ r.sq < MaxSq)
              /\ (r.sq > MinSq /\ r.sq < MaxSq) => r.sq = 81 * c.tenths
  /\ \A f, g \in DOMAIN styled :
       (/\ IsStyle(f) /\ IsStyle(g)
        /\ NonNegative(SkoleProps(f).antall_elever)
        /\ NonNegative(SkoleProps(g).antall_elever)
        /\ SkoleProps(f).antall_elever.tenths <= SkoleProps(g).antall_elever.tenths)
       => styled[f].radius.sq <= styled[g].radius.sq
RadiusFollowsCountWitness ==
  /\ IsStyle("s1") /\ IsStyle("s2")
  /\ SkoleProps("s1").antall_elever = Num(597)
  /\ SkoleProps("s2").antall_elever = Num(598)
  /\ styled["s1"].radius.sq < styled["s2"].radius.sq
  /\ styled["s2"].radius.sq = MaxSq

====
